---- MODULE Spec2Model ----
(***************************************************************************)
(* Seat inventory and booking flow of the booking backend.                 *)
(*                                                                         *)
(* The persisted state is the SeatRow table (each row carries the array of *)
(* its bookable seat numbers), the User table and the Booking table with   *)
(* its SeatBooking children.  Every request handler is an async function:  *)
(* each awaited persistence call is one step, so that handlers of          *)
(* different requests interleave between two awaits.                       *)
(***************************************************************************)
EXTENDS Integers, Sequences, FiniteSets, TLC

VARIABLES
    seatRows,       \* SeatRow table: row id -> [name, seats]
    users,          \* User table: the set of emails that have a User
    bookings,       \* Booking table: set of booking records (with seats)
    nextBookingId,  \* id the next inserted Booking gets
    proc,           \* per request handler: operation, arguments, locals
    started,        \* number of requests started so far
    held,           \* history: row id -> seat numbers the row ever held
    prev,           \* history: the last two finished requests (when env.log)
    env,            \* the clients: what they request, whether the database fails
    outbox          \* confirmation notifications triggered so far

vars == <<seatRows, users, bookings, nextBookingId, proc, started, held, prev, env, outbox>>

----------------------------------------------------------------------------
(* Bounds of the model *)

MaxRequests == 3
MaxSeqRequests == 3
MaxInvRequests == 3
MaxDelRequests == 3
MaxUpRequests == 2
MaxPayRequests == 3
MaxListRequests == 2
MaxRowRequests == 3
MaxLifeRequests == 3
MaxAdminRequests == 3
MaxStoreRequests == 3
MaxPage == 3
MaxLimit == 2
MaxBookings == 2
MaxSeat == 2
MaxSeatsPerRequest == 2

(* Program constants *)

pricePerSeat == 50
MaxUploadAttempts == 3
jobAttempts == 3
backoffDelay == 2000

----------------------------------------------------------------------------
(* Universe of inputs *)

Procs == {"h1", "h2"}
SeqProcs == {"h1"}
RowIds == {"rA", "rB"}
MissingRowId == "rX"
Emails == {"alice"}
SeatNumbers == 1..MaxSeat

RowName(id) == IF id = "rA" THEN "A" ELSE "B"

Range(s) == {s[i] : i \in DOMAIN s}

SeatTuples == [seatRowId : RowIds, seatNumber : SeatNumbers]

SeatLists == UNION {[1..n -> SeatTuples] : n \in 1..MaxSeatsPerRequest}

(* What the administrator may ask createSeatRow for; a new row gets the     *)
(* first id not in use                                                      *)
RowNames == {"A", "B", "C"}

NewRowIds == <<"rC", "rD", "rE", "rF">>

RowSeatLists == {<<1, 2>>, <<2>>, <<2, 1>>, <<1, 1>>}

(* The receipt of a request: none, or a file whose size and type pass or    *)
(* fail the validation of uploadReceipt                                     *)
NoFile == [present |-> FALSE, sizeOk |-> TRUE, typeOk |-> TRUE]

ReceiptFiles ==
    {NoFile} \cup {[present |-> TRUE, sizeOk |-> s, typeOk |-> t] : s, t \in BOOLEAN}

(* What the storage answers to the upload attempts of one call *)
StorageAnswers == {"ok", "error", "exists", "timeout"}

NoAttempts == [k \in 1..MaxUploadAttempts |-> "ok"]

UploadAttempts == [1..MaxUploadAttempts -> StorageAnswers]

----------------------------------------------------------------------------
(* Array helpers of the seat inventory *)

includes(seats, n) == n \in Range(seats)

filterOut(seats, n) == SelectSeq(seats, LAMBDA e : e # n)

RECURSIVE insertSorted(_, _)
insertSorted(s, n) ==
    IF s = <<>> THEN <<n>>
    ELSE IF n < Head(s) THEN <<n>> \o s
    ELSE <<Head(s)>> \o insertSorted(Tail(s), n)

RECURSIVE sortAsc(_)
sortAsc(s) == IF s = <<>> THEN <<>> ELSE insertSorted(sortAsc(Tail(s)), Head(s))

(* The array written by removeSeatFromRow and by addSeatToRow *)

removedSeatsHead(seats, n) == Tail(seats)

removedSeats(seats, n) == filterOut(seats, n)

addedSeatsAlone(seats, n) == sortAsc(<<n>>)

addedSeats(seats, n) == sortAsc(Append(seats, n))

----------------------------------------------------------------------------
(* Results and exceptions.  badRequest tells a BadRequestException from any *)
(* other error (a persistence error thrown by the database client).         *)

NoResult == [status |-> "none", kind |-> "", badRequest |-> FALSE,
             row |-> "", seat |-> 0, count |-> 0]

Ok(n) == [status |-> "ok", kind |-> "", badRequest |-> FALSE,
          row |-> "", seat |-> 0, count |-> n]

BadRequest(kind, row, seat) ==
    [status |-> "error", kind |-> kind, badRequest |-> TRUE,
     row |-> row, seat |-> seat, count |-> 0]

PersistenceError ==
    [status |-> "error", kind |-> "Persistence", badRequest |-> FALSE,
     row |-> "", seat |-> 0, count |-> 0]

(* An Error thrown by uploadReceipt *)
UploadError(kind) ==
    [status |-> "error", kind |-> kind, badRequest |-> FALSE,
     row |-> "", seat |-> 0, count |-> 0]

(* SupabaseService.uploadReceipt: the error it throws, or NoResult when it  *)
(* returns the public URL                                                   *)
uploadReceipt(file, answers) ==
    IF ~file.sizeOk THEN UploadError("FileTooLarge")
    ELSE IF ~file.typeOk THEN UploadError("FileTypeNotSupported")
    ELSE IF \A k \in 1..MaxUploadAttempts : answers[k] # "ok"
    THEN UploadError("UploadFailed")
    ELSE NoResult

(* The size and type validation at the head of uploadReceipt *)
validateFile(file) ==
    IF ~file.sizeOk THEN UploadError("FileTooLarge")
    ELSE IF ~file.typeOk THEN UploadError("FileTypeNotSupported")
    ELSE NoResult

(* const filePath = `receipts/${userId}-${Date.now()}.${fileExt}` *)
FilePath == "receipts/u-t.ext"

(* const newFilePath = `receipts/${userId}-${Date.now()}-${attempt}.${fileExt}` *)
NewFilePath(attempt) ==
    CASE attempt = 1 -> "receipts/u-t-1.ext"
      [] attempt = 2 -> "receipts/u-t-2.ext"
      [] OTHER -> "receipts/u-t-3.ext"

(* The path handed to storage.upload in an attempt: filePath, whatever      *)
(* newFilePath the previous attempt computed                                *)
uploadPath(filePath, newFilePath) == filePath

(* getPublicUrl(filePath) *)
getPublicUrl(filePath) == <<"public", filePath>>

loopConditionOneMore(attempt) == attempt <= MaxUploadAttempts + 1

(* attempt <= 3 of the retry loop *)
loopCondition(attempt) == attempt <= MaxUploadAttempts

uploadCatchRethrow(uploadError) == uploadError

(* catch (uploadError) around the upload in createBooking: nothing is       *)
(* thrown on                                                                *)
uploadCatch(uploadError) == NoResult

createBookingCatchGeneric(error) == BadRequest("CreateFailed", "", 0)

(* catch block of createBooking *)
createBookingCatch(error) ==
    IF error.badRequest THEN error ELSE BadRequest("CreateFailed", "", 0)

deleteBookingCatchGeneric(error) == BadRequest("DeleteFailed", "", 0)

(* catch block of deleteBooking *)
deleteBookingCatch(error) ==
    IF error.badRequest THEN error ELSE BadRequest("DeleteFailed", "", 0)

(* catch block of updatePaymentStatusByBookingId *)
updatePaymentCatch(error) ==
    IF error.badRequest THEN error ELSE BadRequest("UpdatePaymentFailed", "", 0)

(* catch block of addSeatToRow *)
addSeatToRowCatch(error) ==
    IF error.badRequest THEN error ELSE BadRequest("AddSeatFailed", "", 0)

removeSeatFromRowUnchecked(seatRow, seatNumber) ==
    IF seatRow = <<>> THEN BadRequest("RowNotFound", "", 0) ELSE NoResult

addSeatToRowUnchecked(seatRow, seatNumber) ==
    IF seatRow = <<>> THEN BadRequest("RowNotFound", "", 0) ELSE NoResult

(* getSeatRowById followed by the test of removeSeatFromRow: the exception  *)
(* thrown for row seatRow (<<>> when the id resolves to no row), or NoResult *)
removeSeatFromRowCheck(seatRow, seatNumber) ==
    IF seatRow = <<>> THEN BadRequest("RowNotFound", "", 0)
    ELSE IF ~includes(seatRow[1].seats, seatNumber)
    THEN BadRequest("SeatDoesNotExist", seatRow[1].name, seatNumber)
    ELSE NoResult

(* getSeatRowById followed by the test of addSeatToRow *)
addSeatToRowCheck(seatRow, seatNumber) ==
    IF seatRow = <<>> THEN BadRequest("RowNotFound", "", 0)
    ELSE IF includes(seatRow[1].seats, seatNumber)
    THEN BadRequest("SeatExists", seatRow[1].name, seatNumber)
    ELSE NoResult

createSeatRowUnchecked(existingSeatRow, name) == NoResult

(* if (existingSeatRow) of createSeatRow: existingSeatRow is <<>> when      *)
(* findFirst returns null                                                   *)
createSeatRowCheck(existingSeatRow, name) ==
    IF existingSeatRow # <<>> THEN BadRequest("NameExists", name, 0) ELSE NoResult

(* One iteration of the availability loop of createBooking *)
availabilityCheck(seatRow, seatNumber) ==
    IF seatRow = <<>> THEN BadRequest("RowNotFound", "", 0)
    ELSE IF ~includes(seatRow[1].seats, seatNumber)
    THEN BadRequest("SeatNotAvailable", seatRow[1].name, seatNumber)
    ELSE NoResult

(* Why a check failed *)
Cause(error) ==
    CASE error.kind = "RowNotFound" -> "rowMissing"
      [] error.kind \in {"SeatDoesNotExist", "SeatNotAvailable"} -> "unavailable"
      [] error.kind = "SeatExists" -> "present"
      [] OTHER -> "persistence"

----------------------------------------------------------------------------
(* Persistence reads *)

getSeatRowById(id) == IF id \in DOMAIN seatRows THEN <<seatRows[id]>> ELSE <<>>

findBooking(id) ==
    IF \E b \in bookings : b.id = id
    THEN <<CHOOSE b \in bookings : b.id = id>>
    ELSE <<>>

Available(id) == Range(seatRows[id].seats)

(* prisma.seatRow.findFirst({ where: { name } }) *)
findFirstByName(name) ==
    IF \E id \in DOMAIN seatRows : seatRows[id].name = name
    THEN <<CHOOSE id \in DOMAIN seatRows : seatRows[id].name = name>>
    ELSE <<>>

seatRowNameIndexNone(name) == FALSE

(* The unique index on the name of a SeatRow: whether an insert of name     *)
(* violates it                                                              *)
seatRowNameIndex(name) == \E id \in DOMAIN seatRows : seatRows[id].name = name

(* The id prisma.seatRow.create gives the new row *)
newRowId ==
    NewRowIds[CHOOSE k \in DOMAIN NewRowIds :
                /\ NewRowIds[k] \notin DOMAIN seatRows
                /\ \A j \in 1..(k - 1) : NewRowIds[j] \in DOMAIN seatRows]

----------------------------------------------------------------------------
(* Listing: order, window and pagination record of getAllBookings.  The     *)
(* creation time of a booking is modelled by its id: a later booking has a  *)
(* larger id.                                                               *)

(* orderBy: [{ isPaid: 'asc' }, { createdAt: 'desc' }] *)
Before(b, c) ==
    \/ ~b.isPaid /\ c.isPaid
    \/ b.isPaid = c.isPaid /\ b.id > c.id

RECURSIVE orderBy(_)
orderBy(table) ==
    IF table = {} THEN <<>>
    ELSE LET first == CHOOSE b \in table : \A c \in table \ {b} : Before(b, c)
         IN  <<first>> \o orderBy(table \ {first})

skipOneBased(page, limit) == page * limit

(* const skip = (page - 1) * limit *)
skipOf(page, limit) == (page - 1) * limit

(* findMany({ skip, take }) over the ordered rows *)
skipTake(rows, skip, take) ==
    [k \in 1..(IF Len(rows) <= skip THEN 0
               ELSE IF Len(rows) - skip < take THEN Len(rows) - skip ELSE take)
        |-> rows[skip + k]]

(* Math.ceil(totalBookings / limit) *)
ceilDiv(total, limit) == (total + limit - 1) \div limit

hasNextPageInclusive(page, totalPages) == page <= totalPages

hasNextPage(page, totalPages) == page < totalPages

hasPreviousPage(page) == page > 1

NoPagination ==
    [currentPage |-> 0, totalPages |-> 0, totalItems |-> 0, itemsPerPage |-> 0,
     hasNextPage |-> FALSE, hasPreviousPage |-> FALSE]

paginationOf(page, limit, totalBookings) ==
    [currentPage |-> page, totalPages |-> ceilDiv(totalBookings, limit),
     totalItems |-> totalBookings, itemsPerPage |-> limit,
     hasNextPage |-> hasNextPage(page, ceilDiv(totalBookings, limit)),
     hasPreviousPage |-> hasPreviousPage(page)]

----------------------------------------------------------------------------
(* Request handlers *)

NoTables == [users |-> {}, bookings |-> {}, outbox |-> <<>>]

Idle == [op |-> "none", pc |-> "idle", email |-> "", seats |-> <<>>,
         receiptUrl |-> "null", i |-> 0,
         seatRow |-> <<>>, bookingId |-> 0, booking |-> <<>>,
         seatRowId |-> "", seatNumber |-> 0, removed |-> {}, cause |-> "",
         upload |-> "", isPaid |-> FALSE, wasPaid |-> FALSE,
         page |-> 0, limit |-> 0, totalBookings |-> 0, listed |-> <<>>,
         name |-> "", rowSeats |-> <<>>,
         pagination |-> NoPagination,
         tablesBefore |-> NoTables,
         file |-> NoFile, attempt |-> 0, filePath |-> "", newFilePath |-> "",
         tried |-> <<>>, url |-> <<>>, queueError |-> FALSE,
         result |-> NoResult]

(* Outcomes of a database write: it is persisted, or the client throws. *)
Persisted == IF env.faults THEN BOOLEAN ELSE {TRUE}

Free(p) == proc[p].pc \in {"idle", "done"}

(* A request starts: the handler is free and the budget is not used up. *)
Begin(p, fields) ==
    /\ Free(p)
    /\ started < env.maxRequests
    /\ started' = started + 1
    /\ proc' = [proc EXCEPT ![p] =
                    [fields EXCEPT !.tablesBefore =
                        IF env.log
                        THEN [users |-> users, bookings |-> bookings,
                              outbox |-> outbox]
                        ELSE NoTables]]
    /\ prev' = IF env.log THEN [prev EXCEPT !.before = seatRows] ELSE prev

(* The handler moves on with its locals updated to r. *)
Step(p, r) ==
    /\ proc' = [proc EXCEPT ![p] = r]
    /\ UNCHANGED prev

LogEntry(r, result, after) ==
    [op |-> r.op, seats |-> r.seats, bookingId |-> r.bookingId,
     seatRowId |-> r.seatRowId, seatNumber |-> r.seatNumber,
     page |-> r.page, limit |-> r.limit, listed |-> r.listed,
     name |-> r.name, rowSeats |-> r.rowSeats,
     result |-> result, before |-> prev.before, after |-> after]

(* The request ends with a result; cause records why an error was raised. *)
Finish(p, r, result, cause, after) ==
    /\ proc' = [proc EXCEPT ![p] = [Idle EXCEPT !.pc = "done", !.op = r.op,
                                                !.seats = r.seats, !.i = r.i,
                                                !.bookingId = r.bookingId,
                                                !.seatRowId = r.seatRowId,
                                                !.seatNumber = r.seatNumber,
                                                !.removed = r.removed,
                                                !.upload = r.upload,
                                                !.isPaid = r.isPaid,
                                                !.page = r.page, !.limit = r.limit,
                                                !.listed = r.listed,
                                                !.name = r.name,
                                                !.rowSeats = r.rowSeats,
                                                !.pagination = r.pagination,
                                                !.tablesBefore = r.tablesBefore,
                                                !.file = r.file,
                                                !.attempt = r.attempt,
                                                !.tried = r.tried, !.url = r.url,
                                                !.queueError = r.queueError,
                                                !.result = result, !.cause = cause]]
    /\ prev' = IF env.log
               THEN [prev EXCEPT !.log = <<LogEntry(r, result, after)>> \o
                                         SubSeq(prev.log, 1, IF Len(prev.log) > 0 THEN 1 ELSE 0)]
               ELSE prev

----------------------------------------------------------------------------
(* BookingService.createBooking *)

StartCreateBooking(p) ==
    \E email \in env.emails, seats \in env.seatLists :
        /\ nextBookingId <= MaxBookings
        /\ Begin(p, [Idle EXCEPT !.op = "createBooking", !.pc = "cb_findUser",
                                 !.email = email, !.seats = seats])
        /\ UNCHANGED <<seatRows, users, bookings, nextBookingId, held, env, outbox>>

(* prisma.user.findUnique({ where: { email } }) *)
CreateBookingFindUser(p) ==
    /\ proc[p].pc = "cb_findUser"
    /\ Step(p, [proc[p] EXCEPT !.pc = IF proc[p].email \in users
                                      THEN "cb_check" ELSE "cb_createUser",
                               !.i = 1])
    /\ UNCHANGED <<seatRows, users, bookings, nextBookingId, started, held, env, outbox>>

(* prisma.user.create: the email column is unique *)
CreateBookingCreateUser(p) ==
    /\ proc[p].pc = "cb_createUser"
    /\ IF proc[p].email \in users
       THEN /\ Finish(p, proc[p], createBookingCatch(PersistenceError), "persistence", seatRows)
            /\ UNCHANGED users
       ELSE /\ users' = users \cup {proc[p].email}
            /\ Step(p, [proc[p] EXCEPT !.pc = "cb_check"])
    /\ UNCHANGED <<seatRows, bookings, nextBookingId, started, held, env, outbox>>

(* One iteration of the availability loop that precedes the transaction *)
CreateBookingCheck(p) ==
    /\ proc[p].pc = "cb_check"
    /\ LET seat == proc[p].seats[proc[p].i]
           seatRow == getSeatRowById(seat.seatRowId)
           error == availabilityCheck(seatRow, seat.seatNumber)
       IN  IF error # NoResult
           THEN Finish(p, proc[p], createBookingCatch(error), Cause(error), seatRows)
           ELSE Step(p, [proc[p] EXCEPT
                           !.i = IF @ < Len(proc[p].seats) THEN @ + 1 ELSE 1,
                           !.pc = IF proc[p].i < Len(proc[p].seats)
                                  THEN "cb_check" ELSE "cb_upload"])
    /\ UNCHANGED <<seatRows, users, bookings, nextBookingId, started, held, env, outbox>>

(* if (receiptFile): supabaseService.uploadReceipt inside its own try/catch *)
CreateBookingUpload(p) ==
    /\ proc[p].pc = "cb_upload"
    /\ \E receiptFile \in env.receiptFiles :
       \E answers \in IF receiptFile.present THEN UploadAttempts ELSE {NoAttempts} :
        LET uploadError == IF receiptFile.present
                           THEN uploadReceipt(receiptFile, answers) ELSE NoResult
            error == IF uploadError # NoResult THEN uploadCatch(uploadError)
                     ELSE NoResult
            r == [proc[p] EXCEPT !.upload =
                     IF uploadError # NoResult THEN uploadError.kind
                     ELSE IF receiptFile.present THEN "Stored" ELSE ""]
        IN  IF error # NoResult
            THEN Finish(p, r, createBookingCatch(error), "upload", seatRows)
            ELSE Step(p, [r EXCEPT !.pc = "cb_removeRead",
                                   !.receiptUrl =
                                       IF receiptFile.present /\ uploadError = NoResult
                                       THEN "url" ELSE "null"])
    /\ UNCHANGED <<seatRows, users, bookings, nextBookingId, started, held, env, outbox>>

(* removeSeatFromRow, first await: getSeatRowById and the includes test *)
CreateBookingRemoveRead(p) ==
    /\ proc[p].pc = "cb_removeRead"
    /\ LET seat == proc[p].seats[proc[p].i]
           seatRow == getSeatRowById(seat.seatRowId)
           error == removeSeatFromRowCheck(seatRow, seat.seatNumber)
       IN  IF error # NoResult
           THEN Finish(p, proc[p], createBookingCatch(error), Cause(error), seatRows)
           ELSE Step(p, [proc[p] EXCEPT !.pc = "cb_removeWrite", !.seatRow = seatRow])
    /\ UNCHANGED <<seatRows, users, bookings, nextBookingId, started, held, env, outbox>>

(* removeSeatFromRow, second await: prisma.seatRow.update of the whole array *)
CreateBookingRemoveWrite(p) ==
    /\ proc[p].pc = "cb_removeWrite"
    /\ LET seat == proc[p].seats[proc[p].i]
       IN  \E persisted \in Persisted :
            IF persisted
            THEN /\ seatRows' = [seatRows EXCEPT ![seat.seatRowId].seats =
                                   removedSeats(proc[p].seatRow[1].seats, seat.seatNumber)]
                 /\ Step(p, [proc[p] EXCEPT
                               !.seatRow = <<>>,
                               !.removed = @ \cup {seat},
                               !.i = IF @ < Len(proc[p].seats) THEN @ + 1 ELSE @,
                               !.pc = IF proc[p].i < Len(proc[p].seats)
                                      THEN "cb_removeRead" ELSE "cb_insert"])
            ELSE /\ Finish(p, [proc[p] EXCEPT !.seatRow = <<>>],
                           createBookingCatch(PersistenceError), "persistence", seatRows)
                 /\ UNCHANGED seatRows
    /\ UNCHANGED <<users, bookings, nextBookingId, started, held, env, outbox>>

newBookingFlat(id, r) ==
    [id |-> id, userId |-> r.email, seats |-> r.seats,
     totalPrice |-> pricePerSeat, isPaid |-> FALSE,
     receiptUrl |-> r.receiptUrl]

(* const totalPrice = seats.length * pricePerSeat and the data of           *)
(* tx.booking.create                                                        *)
newBooking(id, r) ==
    [id |-> id, userId |-> r.email, seats |-> r.seats,
     totalPrice |-> Len(r.seats) * pricePerSeat, isPaid |-> FALSE,
     receiptUrl |-> r.receiptUrl]

(* tx.booking.create with its nested seats, and the commit *)
CreateBookingInsert(p) ==
    /\ proc[p].pc = "cb_insert"
    /\ \E persisted \in Persisted :
        IF persisted
        THEN /\ bookings' = bookings \cup {newBooking(nextBookingId, proc[p])}
             /\ nextBookingId' = nextBookingId + 1
             /\ Finish(p, [proc[p] EXCEPT !.bookingId = nextBookingId],
                       Ok(Len(proc[p].seats)), "", seatRows)
        ELSE /\ Finish(p, proc[p], createBookingCatch(PersistenceError), "persistence", seatRows)
             /\ UNCHANGED <<bookings, nextBookingId>>
    /\ UNCHANGED <<seatRows, users, started, held, env, outbox>>

----------------------------------------------------------------------------
(* BookingService.deleteBooking *)

StartDeleteBooking(p) ==
    \E bookingId \in 1..MaxBookings :
        /\ Begin(p, [Idle EXCEPT !.op = "deleteBooking", !.pc = "db_find",
                                 !.bookingId = bookingId])
        /\ UNCHANGED <<seatRows, users, bookings, nextBookingId, held, env, outbox>>

(* prisma.booking.findUnique({ include: { seats: true } }) *)
DeleteBookingFind(p) ==
    /\ proc[p].pc = "db_find"
    /\ LET booking == findBooking(proc[p].bookingId)
       IN  IF booking = <<>>
           THEN Finish(p, proc[p],
                       deleteBookingCatch(BadRequest("BookingNotFound", "", 0)),
                       "bookingMissing", seatRows)
           ELSE Step(p, [proc[p] EXCEPT !.pc = "db_delete", !.booking = booking,
                                        !.seats = booking[1].seats])
    /\ UNCHANGED <<seatRows, users, bookings, nextBookingId, started, held, env, outbox>>

(* prisma.booking.delete: throws when the record is gone *)
DeleteBookingDelete(p) ==
    /\ proc[p].pc = "db_delete"
    /\ IF findBooking(proc[p].bookingId) = <<>>
       THEN /\ Finish(p, proc[p], deleteBookingCatch(PersistenceError), "persistence", seatRows)
            /\ UNCHANGED bookings
       ELSE /\ bookings' = {b \in bookings : b.id # proc[p].bookingId}
            /\ Step(p, [proc[p] EXCEPT !.pc = "db_addRead", !.i = 1])
    /\ UNCHANGED <<seatRows, users, nextBookingId, started, held, env, outbox>>

(* addSeatToRow, first await: getSeatRowById and the includes test *)
DeleteBookingAddRead(p) ==
    /\ proc[p].pc = "db_addRead"
    /\ LET seat == proc[p].seats[proc[p].i]
           seatRow == getSeatRowById(seat.seatRowId)
           error == addSeatToRowCheck(seatRow, seat.seatNumber)
       IN  IF error # NoResult
           THEN Finish(p, proc[p], deleteBookingCatch(addSeatToRowCatch(error)),
                       Cause(error), seatRows)
           ELSE Step(p, [proc[p] EXCEPT !.pc = "db_addWrite", !.seatRow = seatRow])
    /\ UNCHANGED <<seatRows, users, bookings, nextBookingId, started, held, env, outbox>>

(* addSeatToRow, second await: prisma.seatRow.update of the whole array; it *)
(* throws when the row is gone                                              *)
DeleteBookingAddWrite(p) ==
    /\ proc[p].pc = "db_addWrite"
    /\ LET seat == proc[p].seats[proc[p].i]
       IN  \E persisted \in Persisted :
            IF persisted /\ seat.seatRowId \in DOMAIN seatRows
            THEN /\ seatRows' = [seatRows EXCEPT ![seat.seatRowId].seats =
                                   addedSeats(proc[p].seatRow[1].seats, seat.seatNumber)]
                 /\ held' = [held EXCEPT ![seat.seatRowId] = @ \cup {seat.seatNumber}]
                 /\ IF proc[p].i < Len(proc[p].seats)
                    THEN Step(p, [proc[p] EXCEPT !.seatRow = <<>>, !.i = @ + 1,
                                                 !.pc = "db_addRead"])
                    ELSE Finish(p, [proc[p] EXCEPT !.seatRow = <<>>],
                                Ok(Len(proc[p].booking[1].seats)), "", seatRows')
            ELSE /\ Finish(p, [proc[p] EXCEPT !.seatRow = <<>>],
                           deleteBookingCatch(addSeatToRowCatch(PersistenceError)),
                           "persistence", seatRows)
                 /\ UNCHANGED <<seatRows, held>>
    /\ UNCHANGED <<users, bookings, nextBookingId, started, env, outbox>>

----------------------------------------------------------------------------
(* SeatRowController.addSeatToRow -> SeatRowService.addSeatToRow *)

StartAddSeat(p) ==
    \E seatRowId \in RowIds \cup {MissingRowId}, seatNumber \in SeatNumbers :
        /\ Begin(p, [Idle EXCEPT !.op = "addSeatToRow", !.pc = "as_read",
                                 !.seatRowId = seatRowId, !.seatNumber = seatNumber])
        /\ UNCHANGED <<seatRows, users, bookings, nextBookingId, held, env, outbox>>

AddSeatRead(p) ==
    /\ proc[p].pc = "as_read"
    /\ LET seatRow == getSeatRowById(proc[p].seatRowId)
           error == addSeatToRowCheck(seatRow, proc[p].seatNumber)
       IN  IF error # NoResult
           THEN Finish(p, proc[p], addSeatToRowCatch(error), Cause(error), seatRows)
           ELSE Step(p, [proc[p] EXCEPT !.pc = "as_write", !.seatRow = seatRow])
    /\ UNCHANGED <<seatRows, users, bookings, nextBookingId, started, held, env, outbox>>

AddSeatWrite(p) ==
    /\ proc[p].pc = "as_write"
    /\ \E persisted \in Persisted :
        IF persisted
        THEN /\ seatRows' = [seatRows EXCEPT ![proc[p].seatRowId].seats =
                               addedSeats(proc[p].seatRow[1].seats, proc[p].seatNumber)]
             /\ held' = [held EXCEPT ![proc[p].seatRowId] = @ \cup {proc[p].seatNumber}]
             /\ Finish(p, [proc[p] EXCEPT !.seatRow = <<>>], Ok(1), "", seatRows')
        ELSE /\ Finish(p, [proc[p] EXCEPT !.seatRow = <<>>],
                       addSeatToRowCatch(PersistenceError), "persistence", seatRows)
             /\ UNCHANGED <<seatRows, held>>
    /\ UNCHANGED <<users, bookings, nextBookingId, started, env, outbox>>

----------------------------------------------------------------------------
(* SeatRowService.removeSeatFromRow called on its own *)

StartRemoveSeat(p) ==
    \E seatRowId \in RowIds \cup {MissingRowId}, seatNumber \in SeatNumbers :
        /\ Begin(p, [Idle EXCEPT !.op = "removeSeatFromRow", !.pc = "rs_read",
                                 !.seatRowId = seatRowId, !.seatNumber = seatNumber])
        /\ UNCHANGED <<seatRows, users, bookings, nextBookingId, held, env, outbox>>

RemoveSeatRead(p) ==
    /\ proc[p].pc = "rs_read"
    /\ LET seatRow == getSeatRowById(proc[p].seatRowId)
           error == removeSeatFromRowCheck(seatRow, proc[p].seatNumber)
       IN  IF error # NoResult
           THEN Finish(p, proc[p], error, Cause(error), seatRows)
           ELSE Step(p, [proc[p] EXCEPT !.pc = "rs_write", !.seatRow = seatRow])
    /\ UNCHANGED <<seatRows, users, bookings, nextBookingId, started, held, env, outbox>>

RemoveSeatWrite(p) ==
    /\ proc[p].pc = "rs_write"
    /\ \E persisted \in Persisted :
        IF persisted
        THEN /\ seatRows' = [seatRows EXCEPT ![proc[p].seatRowId].seats =
                               removedSeats(proc[p].seatRow[1].seats, proc[p].seatNumber)]
             /\ Finish(p, [proc[p] EXCEPT !.seatRow = <<>>], Ok(1), "", seatRows')
        ELSE /\ Finish(p, [proc[p] EXCEPT !.seatRow = <<>>], PersistenceError,
                       "persistence", seatRows)
             /\ UNCHANGED seatRows
    /\ UNCHANGED <<users, bookings, nextBookingId, started, held, env, outbox>>

----------------------------------------------------------------------------
(* BookingService.updatePaymentStatusByBookingId *)

bookingUpdateMany(table, id, isPaid) == {[b EXCEPT !.isPaid = isPaid] : b \in table}

(* prisma.booking.update({ where: { id }, data: { isPaid } }) *)
bookingUpdate(table, id, isPaid) ==
    {IF b.id = id THEN [b EXCEPT !.isPaid = isPaid] ELSE b : b \in table}

(* if (isPaid): whether the call goes on to the confirmation email *)
notify(isPaid, wasPaid) == isPaid

(* The options of emailQueue.add: attempts and backoff of the job *)
jobOptions ==
    [attempts |-> jobAttempts, backoff |-> [type |-> "exponential", delay |-> backoffDelay]]

NoOptions == [attempts |-> 1, backoff |-> [type |-> "none", delay |-> 0]]

Notification(r, channel) ==
    [bookingId |-> r.bookingId, wasPaid |-> r.wasPaid, channel |-> channel,
     options |-> IF channel = "queue" THEN jobOptions ELSE NoOptions]

sendDirectlyNever(queueError) == FALSE

(* catch (queueError): the confirmation is sent directly when the queue has *)
(* refused the job                                                          *)
sendDirectly(queueError) == queueError # NoResult

StartSetPaid(p) ==
    \E bookingId \in 1..(MaxBookings + 1), isPaid \in BOOLEAN :
        /\ Begin(p, [Idle EXCEPT !.op = "updatePaymentStatus", !.pc = "sp_find",
                                 !.bookingId = bookingId, !.isPaid = isPaid])
        /\ UNCHANGED <<seatRows, users, bookings, nextBookingId, held, env, outbox>>

(* prisma.booking.findUnique({ include: { user, seats } }) *)
SetPaidFind(p) ==
    /\ proc[p].pc = "sp_find"
    /\ LET booking == findBooking(proc[p].bookingId)
       IN  IF booking = <<>>
           THEN Finish(p, proc[p],
                       updatePaymentCatch(BadRequest("BookingNotFound", "", 0)),
                       "bookingMissing", seatRows)
           ELSE Step(p, [proc[p] EXCEPT !.pc = "sp_update", !.booking = booking,
                                        !.seats = booking[1].seats])
    /\ UNCHANGED <<seatRows, users, bookings, nextBookingId, started, held, env, outbox>>

(* prisma.booking.update: throws when the record is gone *)
SetPaidUpdate(p) ==
    /\ proc[p].pc = "sp_update"
    /\ LET found == findBooking(proc[p].bookingId)
       IN  \E persisted \in Persisted :
            IF persisted /\ found # <<>>
            THEN /\ bookings' = bookingUpdate(bookings, proc[p].bookingId, proc[p].isPaid)
                 /\ LET r == [proc[p] EXCEPT !.wasPaid = found[1].isPaid, !.i = 1]
                    IN  IF notify(proc[p].isPaid, found[1].isPaid)
                        THEN Step(p, [r EXCEPT !.pc = "sp_gather"])
                        ELSE Finish(p, r, Ok(0), "", seatRows)
            ELSE /\ Finish(p, proc[p], updatePaymentCatch(PersistenceError),
                           "persistence", seatRows)
                 /\ UNCHANGED bookings
    /\ UNCHANGED <<seatRows, users, nextBookingId, started, held, env, outbox>>

(* One iteration of the loop that reads the row of each seat for the email: *)
(* prisma.seatRow.findUnique, outside the try/catch of the notification     *)
SetPaidGather(p) ==
    /\ proc[p].pc = "sp_gather"
    /\ \E persisted \in Persisted :
        IF persisted
        THEN Step(p, [proc[p] EXCEPT
                        !.i = IF @ < Len(proc[p].seats) THEN @ + 1 ELSE @,
                        !.pc = IF proc[p].i < Len(proc[p].seats)
                               THEN "sp_gather" ELSE "sp_enqueue"])
        ELSE Finish(p, proc[p], updatePaymentCatch(PersistenceError), "gather", seatRows)
    /\ UNCHANGED <<seatRows, users, bookings, nextBookingId, started, held, env, outbox>>

(* emailQueue.add('booking-confirmation', ...) inside try/catch *)
SetPaidEnqueue(p) ==
    /\ proc[p].pc = "sp_enqueue"
    /\ \E queued \in Persisted :
        LET queueError == IF queued THEN NoResult ELSE PersistenceError
            r == [proc[p] EXCEPT !.queueError = ~queued]
        IN  IF sendDirectly(queueError)
            THEN /\ Step(p, [r EXCEPT !.pc = "sp_direct"])
                 /\ UNCHANGED outbox
            ELSE /\ outbox' = IF queued
                              THEN Append(outbox, Notification(proc[p], "queue"))
                              ELSE outbox
                 /\ Finish(p, r, Ok(1), "", seatRows)
    /\ UNCHANGED <<seatRows, users, bookings, nextBookingId, started, held, env>>

(* Fallback: emailService.sendBookingConfirmation inside try/catch *)
SetPaidDirect(p) ==
    /\ proc[p].pc = "sp_direct"
    /\ \E sent \in Persisted :
        /\ outbox' = Append(outbox, Notification(proc[p], IF sent THEN "direct" ELSE "failed"))
        /\ Finish(p, proc[p], Ok(1), "", seatRows)
    /\ UNCHANGED <<seatRows, users, bookings, nextBookingId, started, held, env>>

----------------------------------------------------------------------------
(* BookingController.getAllBookings -> BookingService.getAllBookings *)

StartGetAllBookings(p) ==
    \E page \in 1..MaxPage, limit \in 1..MaxLimit :
        /\ Begin(p, [Idle EXCEPT !.op = "getAllBookings", !.pc = "gb_count",
                                 !.page = page, !.limit = limit])
        /\ UNCHANGED <<seatRows, users, bookings, nextBookingId, held, env, outbox>>

(* prisma.booking.count() *)
GetAllBookingsCount(p) ==
    /\ proc[p].pc = "gb_count"
    /\ Step(p, [proc[p] EXCEPT !.pc = "gb_find",
                               !.totalBookings = Cardinality(bookings)])
    /\ UNCHANGED <<seatRows, users, bookings, nextBookingId, started, held, env, outbox>>

(* prisma.booking.findMany({ skip, take, orderBy }) and the response *)
GetAllBookingsFind(p) ==
    /\ proc[p].pc = "gb_find"
    /\ LET rows == skipTake(orderBy(bookings), skipOf(proc[p].page, proc[p].limit),
                            proc[p].limit)
           r == [proc[p] EXCEPT
                   !.listed = [k \in DOMAIN rows |-> rows[k].id],
                   !.pagination = paginationOf(proc[p].page, proc[p].limit,
                                               proc[p].totalBookings)]
       IN  Finish(p, r, Ok(Len(rows)), "", seatRows)
    /\ UNCHANGED <<seatRows, users, bookings, nextBookingId, started, held, env, outbox>>

----------------------------------------------------------------------------
(* SeatRowController.createSeatRow -> SeatRowService.createSeatRow *)

StartCreateSeatRow(p) ==
    \E name \in RowNames, seats \in RowSeatLists :
        /\ Begin(p, [Idle EXCEPT !.op = "createSeatRow", !.pc = "cr_find",
                                 !.name = name, !.rowSeats = seats])
        /\ UNCHANGED <<seatRows, users, bookings, nextBookingId, held, env, outbox>>

(* prisma.seatRow.findFirst and the test of its result *)
CreateSeatRowFind(p) ==
    /\ proc[p].pc = "cr_find"
    /\ LET error == createSeatRowCheck(findFirstByName(proc[p].name), proc[p].name)
       IN  IF error # NoResult
           THEN Finish(p, proc[p], error, "present", seatRows)
           ELSE Step(p, [proc[p] EXCEPT !.pc = "cr_create"])
    /\ UNCHANGED <<seatRows, users, bookings, nextBookingId, started, held, env, outbox>>

(* prisma.seatRow.create({ data: { name, seats } }): it throws when the     *)
(* name is taken by then; createSeatRow catches nothing                     *)
CreateSeatRowCreate(p) ==
    /\ proc[p].pc = "cr_create"
    /\ \E k \in DOMAIN NewRowIds : NewRowIds[k] \notin DOMAIN seatRows
    /\ IF seatRowNameIndex(proc[p].name)
       THEN /\ Finish(p, proc[p], PersistenceError, "persistence", seatRows)
            /\ UNCHANGED seatRows
       ELSE /\ seatRows' = [id \in DOMAIN seatRows \cup {newRowId} |->
                                IF id = newRowId
                                THEN [name |-> proc[p].name, seats |-> proc[p].rowSeats]
                                ELSE seatRows[id]]
            /\ Finish(p, [proc[p] EXCEPT !.seatRowId = newRowId],
                      Ok(Len(proc[p].rowSeats)), "", seatRows')
    /\ UNCHANGED <<users, bookings, nextBookingId, started, held, env, outbox>>

----------------------------------------------------------------------------
(* SupabaseService.uploadReceipt, attempt by attempt *)

StartUploadReceipt(p) ==
    \E file \in ReceiptFiles \ {NoFile} :
        /\ Begin(p, [Idle EXCEPT !.op = "uploadReceipt", !.pc = "ur_validate",
                                 !.file = file])
        /\ UNCHANGED <<seatRows, users, bookings, nextBookingId, held, env, outbox>>

(* The validation and the choice of the object name, before the loop *)
UploadReceiptValidate(p) ==
    /\ proc[p].pc = "ur_validate"
    /\ LET error == validateFile(proc[p].file)
       IN  IF error # NoResult
           THEN Finish(p, proc[p], error, "invalid", seatRows)
           ELSE Step(p, [proc[p] EXCEPT !.pc = "ur_attempt", !.attempt = 1,
                                        !.filePath = FilePath])
    /\ UNCHANGED <<seatRows, users, bookings, nextBookingId, started, held, env, outbox>>

(* One iteration of the retry loop: storage.upload raced against the        *)
(* 25 second timer, and what the loop does with the answer                  *)
UploadReceiptAttempt(p) ==
    /\ proc[p].pc = "ur_attempt"
    /\ \E answer \in StorageAnswers :
        LET path == uploadPath(proc[p].filePath, proc[p].newFilePath)
            r == [proc[p] EXCEPT
                    !.tried = Append(@, [path |-> path, answer |-> answer]),
                    !.newFilePath = IF answer = "exists"
                                    THEN NewFilePath(proc[p].attempt) ELSE @]
        IN  IF answer = "ok"
            THEN Finish(p, [r EXCEPT !.url = getPublicUrl(proc[p].filePath)],
                        Ok(proc[p].attempt), "", seatRows)
            ELSE IF loopCondition(proc[p].attempt + 1)
            THEN Step(p, [r EXCEPT !.attempt = @ + 1])
            ELSE Finish(p, r, UploadError("UploadFailed"), "upload", seatRows)
    /\ UNCHANGED <<seatRows, users, bookings, nextBookingId, started, held, env, outbox>>

----------------------------------------------------------------------------
(* Initial state: two rows set up by the administrator, no booking yet *)

InitialRows ==
    [id \in RowIds |->
        [name |-> RowName(id),
         seats |-> IF id = "rA" THEN <<1, 2>> ELSE <<1>>]]

InitCommon ==
    /\ seatRows = InitialRows
    /\ users = {}
    /\ bookings = {}
    /\ nextBookingId = 1
    /\ proc = [p \in Procs |-> Idle]
    /\ started = 0
    /\ held = [id \in RowIds |-> Range(InitialRows[id].seats)]

Init ==
    /\ InitCommon
    /\ prev = [before |-> InitialRows, log |-> <<>>]
    /\ env = [maxRequests |-> MaxRequests, emails |-> Emails,
              seatLists |-> SeatLists, receiptFiles |-> {NoFile},
              faults |-> FALSE, log |-> FALSE]
    /\ outbox = <<>>

Next ==
    \E p \in Procs :
        \/ StartCreateBooking(p)
        \/ CreateBookingFindUser(p)
        \/ CreateBookingCreateUser(p)
        \/ CreateBookingCheck(p)
        \/ CreateBookingUpload(p)
        \/ CreateBookingRemoveRead(p)
        \/ CreateBookingRemoveWrite(p)
        \/ CreateBookingInsert(p)
        \/ StartDeleteBooking(p)
        \/ DeleteBookingFind(p)
        \/ DeleteBookingDelete(p)
        \/ DeleteBookingAddRead(p)
        \/ DeleteBookingAddWrite(p)
        \/ StartAddSeat(p)
        \/ AddSeatRead(p)
        \/ AddSeatWrite(p)

Spec == Init /\ [][Next]_vars

(* The customers' and the administrator's booking requests alone: nobody   *)
(* calls add-seat.                                                          *)
NextBook ==
    \E p \in Procs :
        \/ StartCreateBooking(p)
        \/ CreateBookingFindUser(p)
        \/ CreateBookingCreateUser(p)
        \/ CreateBookingCheck(p)
        \/ CreateBookingUpload(p)
        \/ CreateBookingRemoveRead(p)
        \/ CreateBookingRemoveWrite(p)
        \/ CreateBookingInsert(p)
        \/ StartDeleteBooking(p)
        \/ DeleteBookingFind(p)
        \/ DeleteBookingDelete(p)
        \/ DeleteBookingAddRead(p)
        \/ DeleteBookingAddWrite(p)

SpecBook == Init /\ [][NextBook]_vars

(* One client at a time: every request runs to its end before the next one  *)
(* starts.  Rows are stored as the administrator listed them.               *)

UnsortedRows ==
    [id \in RowIds |->
        [name |-> RowName(id),
         seats |-> IF id = "rA" THEN <<2, 1>> ELSE <<1>>]]

InitSeq ==
    /\ seatRows \in {InitialRows, UnsortedRows}
    /\ users = {}
    /\ bookings = {}
    /\ nextBookingId = 1
    /\ proc = [p \in Procs |-> Idle]
    /\ started = 0
    /\ held = [id \in RowIds |-> Range(seatRows[id].seats)]
    /\ prev = [before |-> seatRows, log |-> <<>>]
    /\ env = [maxRequests |-> MaxSeqRequests, emails |-> Emails,
              seatLists |-> SeatLists, receiptFiles |-> {NoFile},
              faults |-> FALSE, log |-> TRUE]
    /\ outbox = <<>>

NextSeq ==
    \E p \in SeqProcs :
        \/ StartCreateBooking(p)
        \/ CreateBookingFindUser(p)
        \/ CreateBookingCreateUser(p)
        \/ CreateBookingCheck(p)
        \/ CreateBookingUpload(p)
        \/ CreateBookingRemoveRead(p)
        \/ CreateBookingRemoveWrite(p)
        \/ CreateBookingInsert(p)
        \/ StartDeleteBooking(p)
        \/ DeleteBookingFind(p)
        \/ DeleteBookingDelete(p)
        \/ DeleteBookingAddRead(p)
        \/ DeleteBookingAddWrite(p)
        \/ StartAddSeat(p)
        \/ AddSeatRead(p)
        \/ AddSeatWrite(p)

SpecSeq == InitSeq /\ [][NextSeq]_vars

(* The inventory primitives called one after the other on their own; the    *)
(* database may fail.                                                       *)

InitInv ==
    /\ seatRows \in {InitialRows, UnsortedRows}
    /\ users = {}
    /\ bookings = {}
    /\ nextBookingId = 1
    /\ proc = [p \in Procs |-> Idle]
    /\ started = 0
    /\ held = [id \in RowIds |-> Range(seatRows[id].seats)]
    /\ prev = [before |-> seatRows, log |-> <<>>]
    /\ env = [maxRequests |-> MaxInvRequests, emails |-> {},
              seatLists |-> {}, receiptFiles |-> {},
              faults |-> TRUE, log |-> TRUE]
    /\ outbox = <<>>

NextInv ==
    \E p \in SeqProcs :
        \/ StartAddSeat(p)
        \/ AddSeatRead(p)
        \/ AddSeatWrite(p)
        \/ StartRemoveSeat(p)
        \/ RemoveSeatRead(p)
        \/ RemoveSeatWrite(p)

SpecInv == InitInv /\ [][NextInv]_vars

(* Cancellation requests alone, two at a time, on the state a successful    *)
(* createBooking leaves: booking 1 holds seats that its rows offered, and   *)
(* the rows offer the rest.  Booking 2 does not exist.                      *)

distinctSeats(seats) ==
    \A i, j \in DOMAIN seats : i # j => seats[i] # seats[j]

InitialBookings ==
    {seats \in SeatLists :
        /\ distinctSeats(seats)
        /\ \A t \in Range(seats) :
              includes(InitialRows[t.seatRowId].seats, t.seatNumber)}

RECURSIVE removeAll(_, _, _)
removeAll(rows, seats, k) ==
    IF k > Len(seats) THEN rows
    ELSE removeAll([rows EXCEPT ![seats[k].seatRowId].seats =
                        removedSeats(@, seats[k].seatNumber)], seats, k + 1)

InitDel ==
    /\ \E seats \in InitialBookings :
        /\ seatRows = removeAll(InitialRows, seats, 1)
        /\ bookings = {newBooking(1, [email |-> "alice", seats |-> seats,
                                      receiptUrl |-> "null"])}
    /\ users = Emails
    /\ nextBookingId = 2
    /\ proc = [p \in Procs |-> Idle]
    /\ started = 0
    /\ held = [id \in RowIds |-> Range(InitialRows[id].seats)]
    /\ prev = [before |-> seatRows, log |-> <<>>]
    /\ env = [maxRequests |-> MaxDelRequests, emails |-> {},
              seatLists |-> {}, receiptFiles |-> {},
              faults |-> FALSE, log |-> TRUE]
    /\ outbox = <<>>

NextDel ==
    \E p \in Procs :
        \/ StartDeleteBooking(p)
        \/ DeleteBookingFind(p)
        \/ DeleteBookingDelete(p)
        \/ DeleteBookingAddRead(p)
        \/ DeleteBookingAddWrite(p)

SpecDel == InitDel /\ [][NextDel]_vars


(* One cancellation request at a time, while a row may disappear from the   *)
(* SeatRow table.                                                           *)

SeatRowDeleted(id) ==
    /\ DOMAIN seatRows = RowIds
    /\ id \in DOMAIN seatRows
    /\ seatRows' = [r \in DOMAIN seatRows \ {id} |-> seatRows[r]]
    /\ UNCHANGED <<users, bookings, nextBookingId, proc, started, held, prev, env, outbox>>

NextGone ==
    \/ \E p \in SeqProcs :
        \/ StartDeleteBooking(p)
        \/ DeleteBookingFind(p)
        \/ DeleteBookingDelete(p)
        \/ DeleteBookingAddRead(p)
        \/ DeleteBookingAddWrite(p)
    \/ \E id \in RowIds : SeatRowDeleted(id)

SpecGone == InitDel /\ [][NextGone]_vars

(* Booking requests that carry a receipt, one at a time; the file may be    *)
(* invalid and the storage may refuse it.                                   *)

InitUp ==
    /\ InitCommon
    /\ prev = [before |-> InitialRows, log |-> <<>>]
    /\ env = [maxRequests |-> MaxUpRequests, emails |-> Emails,
              seatLists |-> SeatLists, receiptFiles |-> ReceiptFiles,
              faults |-> FALSE, log |-> TRUE]
    /\ outbox = <<>>

NextUp ==
    \E p \in SeqProcs :
        \/ StartCreateBooking(p)
        \/ CreateBookingFindUser(p)
        \/ CreateBookingCreateUser(p)
        \/ CreateBookingCheck(p)
        \/ CreateBookingUpload(p)
        \/ CreateBookingRemoveRead(p)
        \/ CreateBookingRemoveWrite(p)
        \/ CreateBookingInsert(p)

SpecUp == InitUp /\ [][NextUp]_vars

(* Payment confirmations, one at a time, on the state two successful       *)
(* createBooking calls leave: booking 1 holds a seat in each row, booking 2 *)
(* the remaining seat.  The database, the queue and the mail service may    *)
(* fail.                                                                    *)

FirstBooking ==
    <<[seatRowId |-> "rA", seatNumber |-> 1], [seatRowId |-> "rB", seatNumber |-> 1]>>

SecondBooking == <<[seatRowId |-> "rA", seatNumber |-> 2]>>

InitPay ==
    /\ seatRows = removeAll(removeAll(InitialRows, FirstBooking, 1), SecondBooking, 1)
    /\ bookings = {newBooking(1, [email |-> "alice", seats |-> FirstBooking,
                                  receiptUrl |-> "null"]),
                   newBooking(2, [email |-> "alice", seats |-> SecondBooking,
                                  receiptUrl |-> "null"])}
    /\ users = Emails
    /\ nextBookingId = 3
    /\ proc = [p \in Procs |-> Idle]
    /\ started = 0
    /\ held = [id \in RowIds |-> Range(InitialRows[id].seats)]
    /\ prev = [before |-> seatRows, log |-> <<>>]
    /\ env = [maxRequests |-> MaxPayRequests, emails |-> {},
              seatLists |-> {}, receiptFiles |-> {},
              faults |-> TRUE, log |-> TRUE]
    /\ outbox = <<>>

NextPay ==
    \E p \in SeqProcs :
        \/ StartSetPaid(p)
        \/ SetPaidFind(p)
        \/ SetPaidUpdate(p)
        \/ SetPaidGather(p)
        \/ SetPaidEnqueue(p)
        \/ SetPaidDirect(p)

SpecPay == InitPay /\ [][NextPay]_vars

(* Listing requests, one at a time, on a table of up to three one-seat      *)
(* bookings, each paid or not, that createBooking and the payment           *)
(* confirmation have left.                                                  *)

ListedSeats ==
    <<[seatRowId |-> "rA", seatNumber |-> 1], [seatRowId |-> "rA", seatNumber |-> 2],
      [seatRowId |-> "rB", seatNumber |-> 1]>>

InitList ==
    /\ \E total \in 0..Len(ListedSeats) : \E paid \in [1..total -> BOOLEAN] :
        /\ seatRows = removeAll(InitialRows, SubSeq(ListedSeats, 1, total), 1)
        /\ bookings = {[newBooking(k, [email |-> "alice", seats |-> <<ListedSeats[k]>>,
                                       receiptUrl |-> "null"])
                            EXCEPT !.isPaid = paid[k]] : k \in 1..total}
        /\ nextBookingId = total + 1
    /\ users = Emails
    /\ proc = [p \in Procs |-> Idle]
    /\ started = 0
    /\ held = [id \in RowIds |-> Range(InitialRows[id].seats)]
    /\ prev = [before |-> seatRows, log |-> <<>>]
    /\ env = [maxRequests |-> MaxListRequests, emails |-> {},
              seatLists |-> {}, receiptFiles |-> {},
              faults |-> FALSE, log |-> TRUE]
    /\ outbox = <<>>

NextList ==
    \E p \in SeqProcs :
        \/ StartGetAllBookings(p)
        \/ GetAllBookingsCount(p)
        \/ GetAllBookingsFind(p)

SpecList == InitList /\ [][NextList]_vars

(* The administrator adds rows, one request at a time. *)

InitRow ==
    /\ InitCommon
    /\ prev = [before |-> InitialRows, log |-> <<>>]
    /\ env = [maxRequests |-> MaxRowRequests, emails |-> {},
              seatLists |-> {}, receiptFiles |-> {},
              faults |-> FALSE, log |-> TRUE]
    /\ outbox = <<>>

NextRow ==
    \E p \in SeqProcs :
        \/ StartCreateSeatRow(p)
        \/ CreateSeatRowFind(p)
        \/ CreateSeatRowCreate(p)

SpecRow == InitRow /\ [][NextRow]_vars

(* The life of bookings, one request at a time: they are created, paid,     *)
(* set back to unpaid and cancelled; the database, the queue and the mail   *)
(* service may fail.                                                        *)

InitLife ==
    /\ InitCommon
    /\ prev = [before |-> InitialRows, log |-> <<>>]
    /\ env = [maxRequests |-> MaxLifeRequests, emails |-> Emails,
              seatLists |-> SeatLists, receiptFiles |-> {NoFile},
              faults |-> TRUE, log |-> TRUE]
    /\ outbox = <<>>

NextLife ==
    \E p \in SeqProcs :
        \/ StartCreateBooking(p)
        \/ CreateBookingFindUser(p)
        \/ CreateBookingCreateUser(p)
        \/ CreateBookingCheck(p)
        \/ CreateBookingUpload(p)
        \/ CreateBookingRemoveRead(p)
        \/ CreateBookingRemoveWrite(p)
        \/ CreateBookingInsert(p)
        \/ StartSetPaid(p)
        \/ SetPaidFind(p)
        \/ SetPaidUpdate(p)
        \/ SetPaidGather(p)
        \/ SetPaidEnqueue(p)
        \/ SetPaidDirect(p)
        \/ StartDeleteBooking(p)
        \/ DeleteBookingFind(p)
        \/ DeleteBookingDelete(p)
        \/ DeleteBookingAddRead(p)
        \/ DeleteBookingAddWrite(p)

SpecLife == InitLife /\ [][NextLife]_vars

(* The administrator creates rows and adds seats, one request at a time,   *)
(* starting from two rows that offer different seat numbers.                *)

DisjointRows ==
    [id \in RowIds |->
        [name |-> RowName(id),
         seats |-> IF id = "rA" THEN <<1>> ELSE <<2>>]]

InitAdmin ==
    /\ seatRows = DisjointRows
    /\ users = {}
    /\ bookings = {}
    /\ nextBookingId = 1
    /\ proc = [p \in Procs |-> Idle]
    /\ started = 0
    /\ held = [id \in RowIds |-> Range(DisjointRows[id].seats)]
    /\ prev = [before |-> DisjointRows, log |-> <<>>]
    /\ env = [maxRequests |-> MaxAdminRequests, emails |-> {},
              seatLists |-> {}, receiptFiles |-> {},
              faults |-> FALSE, log |-> TRUE]
    /\ outbox = <<>>

NextAdmin ==
    \E p \in SeqProcs :
        \/ StartCreateSeatRow(p)
        \/ CreateSeatRowFind(p)
        \/ CreateSeatRowCreate(p)
        \/ StartAddSeat(p)
        \/ AddSeatRead(p)
        \/ AddSeatWrite(p)

SpecAdmin == InitAdmin /\ [][NextAdmin]_vars

(* Receipt uploads, one at a time; the storage answers each attempt as it   *)
(* likes.                                                                   *)

InitStore ==
    /\ InitCommon
    /\ prev = [before |-> InitialRows, log |-> <<>>]
    /\ env = [maxRequests |-> MaxStoreRequests, emails |-> {},
              seatLists |-> {}, receiptFiles |-> ReceiptFiles,
              faults |-> FALSE, log |-> FALSE]
    /\ outbox = <<>>

NextStore ==
    \E p \in SeqProcs :
        \/ StartUploadReceipt(p)
        \/ UploadReceiptValidate(p)
        \/ UploadReceiptAttempt(p)

SpecStore == InitStore /\ [][NextStore]_vars

(* Every attempt ends: the storage answers or the timer of the attempt      *)
(* fires, so a call that is under way takes its next step.                  *)
UploadReceiptRuns ==
    \E p \in SeqProcs : UploadReceiptValidate(p) \/ UploadReceiptAttempt(p)

SpecStoreLive == SpecStore /\ WF_vars(UploadReceiptRuns)

(* Two administrators create rows at the same time. *)

InitRowPair ==
    /\ InitCommon
    /\ prev = [before |-> InitialRows, log |-> <<>>]
    /\ env = [maxRequests |-> MaxRowRequests, emails |-> {},
              seatLists |-> {}, receiptFiles |-> {},
              faults |-> FALSE, log |-> FALSE]
    /\ outbox = <<>>

NextRowPair ==
    \E p \in Procs :
        \/ StartCreateSeatRow(p)
        \/ CreateSeatRowFind(p)
        \/ CreateSeatRowCreate(p)

SpecRowPair == InitRowPair /\ [][NextRowPair]_vars

----------------------------------------------------------------------------
(* Properties of the seat inventory under concurrent requests *)

Holds(b, id, n) == [seatRowId |-> id, seatNumber |-> n] \in Range(b.seats)

Booked(id, n) == \E b \in bookings : Holds(b, id, n)

Quiescent == \A p \in Procs : Free(p)

FailedCreate(p) ==
    /\ proc[p].pc = "done"
    /\ proc[p].op = "createBooking"
    /\ proc[p].result.status = "error"

(* C1: no (row, seat) pair is attached to two existing bookings at the same *)
(* time, whatever the interleaving of createBooking, deleteBooking and      *)
(* add-seat requests.                                                       *)
C1_NoSeatHeldTwice ==
    \A b1, b2 \in bookings :
        b1.id # b2.id => Range(b1.seats) \cap Range(b2.seats) = {}

(* C2: a row's available set contains no seat number that is attached to an *)
(* existing booking of that row.                                            *)
C2_BookedSeatNotAvailable ==
    \A b \in bookings : \A t \in Range(b.seats) :
        t.seatRowId \in DOMAIN seatRows => t.seatNumber \notin Available(t.seatRowId)

(* The booking found by a finished deleteBooking was deleted by it. *)
FinishedDelete(p) ==
    /\ proc[p].pc = "done"
    /\ proc[p].op = "deleteBooking"
    /\ proc[p].i >= 1

(* C3: no seat is lost by deleteBooking: once no request is in flight,      *)
(* every seat of a booking that a deleteBooking call has deleted is in its  *)
(* row's available set or attached to an existing booking.                  *)
C3_NoSeatLost ==
    Quiescent =>
        \A p \in Procs :
            FinishedDelete(p) =>
                \A t \in Range(proc[p].seats) :
                    \/ t.seatNumber \in Available(t.seatRowId)
                    \/ Booked(t.seatRowId, t.seatNumber)

(* C4: booking creation is all-or-nothing: when createBooking has failed on *)
(* an invalid or unavailable tuple, no booking exists for the request and,  *)
(* once no request is in flight, every other seat the request names is      *)
(* offered by its row (or held by a booking): none of those the call had    *)
(* removed before it failed stays removed.                                  *)
C4_CreateAllOrNothing ==
    \A p \in Procs :
        (FailedCreate(p) /\ proc[p].cause \in {"unavailable", "rowMissing"}) =>
            /\ proc[p].bookingId = 0
            /\ Quiescent =>
                \A t \in proc[p].removed \ {proc[p].seats[proc[p].i]} :
                    \/ t.seatNumber \in Available(t.seatRowId)
                    \/ Booked(t.seatRowId, t.seatNumber)

----------------------------------------------------------------------------
(* Properties of the inventory primitives called one after the other *)

SeatsOf(rows, id) == Range(rows[id].seats)

AvailPairs(rows) == {<<id, n>> : id \in DOMAIN rows, n \in SeatNumbers} \cap
                    UNION {{<<id, n>> : n \in SeatsOf(rows, id)} : id \in DOMAIN rows}

NoDuplicates(seats) ==
    \A i, j \in DOMAIN seats : i # j => seats[i] # seats[j]

Logged(k, op) == Len(prev.log) >= k /\ prev.log[k].op = op

LoggedOk(k, op) == Logged(k, op) /\ prev.log[k].result.status = "ok"

SameSeat(e1, e2) ==
    e1.seatRowId = e2.seatRowId /\ e1.seatNumber = e2.seatNumber

OtherRowsSame(e, before, after) ==
    \A id \in DOMAIN before \ {e.seatRowId} : after[id] = before[id]

(* C5: after removeSeat(R,s) has succeeded s is not in R's available set,   *)
(* and after a subsequent addSeat(R,s) it is there again; both calls leave  *)
(* every other seat number of R and every other row as they were.           *)
C5_RemoveAddRoundTrip ==
    /\ LoggedOk(1, "removeSeatFromRow") =>
        LET e == prev.log[1]
        IN  /\ e.seatNumber \notin SeatsOf(e.after, e.seatRowId)
            /\ SeatsOf(e.after, e.seatRowId) =
                   SeatsOf(e.before, e.seatRowId) \ {e.seatNumber}
            /\ OtherRowsSame(e, e.before, e.after)
    /\ (/\ LoggedOk(1, "addSeatToRow")
        /\ LoggedOk(2, "removeSeatFromRow")
        /\ SameSeat(prev.log[1], prev.log[2])) =>
        LET add == prev.log[1]
            rem == prev.log[2]
        IN  /\ add.seatNumber \in SeatsOf(add.after, add.seatRowId)
            /\ SeatsOf(add.after, add.seatRowId) = SeatsOf(rem.before, add.seatRowId)
            /\ OtherRowsSame(add, rem.before, add.after)

C5_RoundTripDone ==
    /\ LoggedOk(1, "addSeatToRow")
    /\ LoggedOk(2, "removeSeatFromRow")
    /\ SameSeat(prev.log[1], prev.log[2])
    /\ Len(prev.log[2].before[prev.log[1].seatRowId].seats) > 1

(* C6: removeSeat(R,s) fails with an error whenever s is not in R's         *)
(* available set (so the second of two calls with the same (R,s) fails),    *)
(* fails with the not-found error when R resolves to no row, and a failing  *)
(* call leaves every row as it was.                                         *)
C6_RemoveSeatFails ==
    Logged(1, "removeSeatFromRow") =>
        LET e == prev.log[1]
        IN  /\ e.seatRowId \notin DOMAIN e.before =>
                   (e.result.status = "error" /\ e.result.kind = "RowNotFound")
            /\ (/\ e.seatRowId \in DOMAIN e.before
                /\ e.seatNumber \notin SeatsOf(e.before, e.seatRowId)) =>
                   (e.result.status = "error" /\ e.result.kind = "SeatDoesNotExist")
            /\ e.result.status = "error" => e.after = e.before

C6_SecondRemoveFailed ==
    /\ Logged(1, "removeSeatFromRow")
    /\ LoggedOk(2, "removeSeatFromRow")
    /\ SameSeat(prev.log[1], prev.log[2])
    /\ prev.log[1].result.kind = "SeatDoesNotExist"

(* C7: addSeat(R,s) fails with the conflict error when s is already in R's  *)
(* available set and with the not-found error when R does not exist; a      *)
(* failing call leaves every row as it was, and no row ever lists a seat    *)
(* twice.                                                                   *)
C7_AddSeatRejects ==
    /\ \A id \in DOMAIN seatRows : NoDuplicates(seatRows[id].seats)
    /\ Logged(1, "addSeatToRow") =>
        LET e == prev.log[1]
        IN  /\ e.seatRowId \notin DOMAIN e.before =>
                   (e.result.status = "error" /\ e.result.kind = "RowNotFound")
            /\ (/\ e.seatRowId \in DOMAIN e.before
                /\ e.seatNumber \in SeatsOf(e.before, e.seatRowId)) =>
                   (e.result.status = "error" /\ e.result.kind = "SeatExists")
            /\ e.result.status = "error" => e.after = e.before

C7_DoubleReleaseRejected ==
    /\ Logged(1, "addSeatToRow")
    /\ LoggedOk(2, "addSeatToRow")
    /\ SameSeat(prev.log[1], prev.log[2])
    /\ prev.log[1].result.kind = "SeatExists"

----------------------------------------------------------------------------
(* Properties of the booking requests handled one after the other *)

BookingPairs(seats) == {<<t.seatRowId, t.seatNumber>> : t \in Range(seats)}

(* C8: a successful deleteBooking of a booking with N seat assignments      *)
(* returns exactly those N seats to their rows and reports N; a delete that *)
(* directly follows the create of its booking leaves every row's available  *)
(* set as it was before the create.                                         *)
C8_DeleteReturnsSeats ==
    /\ LoggedOk(1, "deleteBooking") =>
        LET e == prev.log[1]
        IN  /\ e.result.count = Len(e.seats)
            /\ AvailPairs(e.after) = AvailPairs(e.before) \cup BookingPairs(e.seats)
            /\ Cardinality(AvailPairs(e.after) \ AvailPairs(e.before)) = Len(e.seats)
    /\ (/\ LoggedOk(1, "deleteBooking")
        /\ LoggedOk(2, "createBooking")
        /\ prev.log[1].bookingId = prev.log[2].bookingId) =>
        AvailPairs(prev.log[1].after) = AvailPairs(prev.log[2].before)

C8_TwoRowBookingDeleted ==
    /\ LoggedOk(1, "deleteBooking")
    /\ LoggedOk(2, "createBooking")
    /\ prev.log[1].bookingId = prev.log[2].bookingId
    /\ Len(prev.log[1].seats) = 2
    /\ prev.log[1].seats[1].seatRowId # prev.log[1].seats[2].seatRowId

(* C9: a createBooking that is refused because a requested seat is not in   *)
(* its row's available set, at the check before the transaction or at the   *)
(* removal inside it, fails with an error that names that row and that      *)
(* seat; the generic creation-failed error is produced only when a          *)
(* persistence call has thrown.                                             *)
C9_SeatUnavailableIsSpecific ==
    \A p \in Procs :
        FailedCreate(p) =>
            /\ proc[p].cause = "unavailable" =>
                /\ proc[p].result.kind \in {"SeatNotAvailable", "SeatDoesNotExist"}
                /\ proc[p].result.row = RowName(proc[p].seats[proc[p].i].seatRowId)
                /\ proc[p].result.seat = proc[p].seats[proc[p].i].seatNumber
            /\ proc[p].result.kind = "CreateFailed" => proc[p].cause = "persistence"

C9_TakenBetweenCheckAndRemoval ==
    \E p \in Procs :
        /\ FailedCreate(p)
        /\ proc[p].result.kind = "SeatDoesNotExist"
        /\ proc[p].seats[proc[p].i] \notin proc[p].removed
        /\ Booked(proc[p].seats[proc[p].i].seatRowId,
                  proc[p].seats[proc[p].i].seatNumber)

(* C10: when several of the requested seats are unavailable, the            *)
(* seat-unavailable error names every one of them: in a request for seats   *)
(* that their rows have held, each seat that a booking holds and its row no *)
(* longer offers is named.                                                  *)
C10_ErrorNamesEveryConflict ==
    \A p \in SeqProcs :
        (/\ FailedCreate(p)
         /\ proc[p].result.kind = "SeatNotAvailable"
         /\ \A t \in Range(proc[p].seats) : t.seatNumber \in held[t.seatRowId]) =>
            \A t \in Range(proc[p].seats) :
                (/\ t.seatNumber \notin Available(t.seatRowId)
                 /\ Booked(t.seatRowId, t.seatNumber)) =>
                    /\ proc[p].result.row = RowName(t.seatRowId)
                    /\ proc[p].result.seat = t.seatNumber

----------------------------------------------------------------------------
(* Properties of cancellation *)

DeleteOf(e, id) == e.op = "deleteBooking" /\ e.bookingId = id

NotFound(result) ==
    result.status = "error" /\ result.badRequest /\ result.kind = "BookingNotFound"

(* The step in which handler p finds no booking and ends *)
DeleteFindsNothing(p) ==
    /\ proc[p].pc = "db_find"
    /\ findBooking(proc[p].bookingId) = <<>>
    /\ proc'[p].pc = "done"

DeletesOfBookingOne == {k \in DOMAIN prev.log : DeleteOf(prev.log[k], 1)}

SucceededDeletes == {k \in DeletesOfBookingOne : prev.log[k].result.status = "ok"}

SeatsBackOnce ==
    \A id \in RowIds :
        Available(id) = held[id] /\ NoDuplicates(seatRows[id].seats)

DeleteOutcomes ==
    /\ \A p \in Procs :
          (proc[p].pc = "done" /\ proc[p].op = "deleteBooking"
              /\ proc[p].cause = "bookingMissing") => NotFound(proc[p].result)
    /\ Cardinality(SucceededDeletes) <= 1
    /\ (Quiescent /\ DeletesOfBookingOne # {}) => (bookings = {} /\ SeatsBackOnce)
    /\ (Quiescent /\ started = 2 /\ DeletesOfBookingOne = {1, 2}) =>
          Cardinality(SucceededDeletes) = 1

(* C11: deleteBooking of an id that names no booking fails with the         *)
(* not-found error and the step changes no row and no booking; of the       *)
(* deleteBooking calls on one booking, one after the other or concurrent,   *)
(* at most one succeeds, of two exactly one, and once they have ended the   *)
(* booking is gone and each of its seats is back in its row exactly once.   *)
C11_DeleteNotFound ==
    /\ []DeleteOutcomes
    /\ [][\A p \in Procs :
            DeleteFindsNothing(p) => (seatRows' = seatRows /\ bookings' = bookings)]_vars

(* A concurrent pair of deletes of booking 1 ended with one failure, and a  *)
(* later delete of the same booking found nothing.                          *)
C11_DeletedTwiceThenAgain ==
    /\ Quiescent
    /\ started = 3
    /\ \E p, q \in Procs :
        /\ p # q
        /\ DeleteOf(proc[p], 1) /\ NotFound(proc[p].result)
        /\ DeleteOf(proc[q], 1) /\ proc[q].result.kind = "DeleteFailed"
    /\ bookings = {}
    /\ SeatsBackOnce

(* C12: when the row of one of a booking's seats no longer exists,          *)
(* deleteBooking still succeeds: the booking is deleted and every seat      *)
(* whose row exists is back in its row.                                     *)
C12_MissingRowSkipped ==
    \A p \in SeqProcs :
        (/\ FinishedDelete(p)
         /\ \E t \in Range(proc[p].seats) : t.seatRowId \notin DOMAIN seatRows) =>
            /\ proc[p].result.status = "ok"
            /\ findBooking(proc[p].bookingId) = <<>>
            /\ \A t \in Range(proc[p].seats) :
                  t.seatRowId \in DOMAIN seatRows =>
                      t.seatNumber \in Range(seatRows[t.seatRowId].seats)

----------------------------------------------------------------------------
(* Properties of the receipt upload *)

UploadFailed(p) ==
    proc[p].upload \in {"FileTooLarge", "FileTypeNotSupported", "UploadFailed"}

BookedWithoutReceipt(p) ==
    /\ proc[p].result.status = "ok"
    /\ \E b \in bookings :
        /\ b.id = proc[p].bookingId
        /\ b.seats = proc[p].seats
        /\ b.receiptUrl = "null"
    /\ \A t \in Range(proc[p].seats) : t.seatNumber \notin Available(t.seatRowId)

(* C13: a failed receipt upload (file too large, type not supported, or no  *)
(* attempt accepted by the storage) never fails createBooking: the request  *)
(* ends as it does without a receipt, its seats removed and its booking     *)
(* created with a null receipt reference.                                   *)
C13_UploadFailureNotFatal ==
    \A p \in SeqProcs :
        (proc[p].pc = "done" /\ proc[p].op = "createBooking" /\ UploadFailed(p)) =>
            /\ proc[p].cause # "upload"
            /\ distinctSeats(proc[p].seats) => BookedWithoutReceipt(p)

C13_BookedAfterFailedUpload ==
    \E p \in SeqProcs :
        /\ proc[p].pc = "done"
        /\ proc[p].op = "createBooking"
        /\ proc[p].upload = "UploadFailed"
        /\ Len(proc[p].seats) = 2
        /\ BookedWithoutReceipt(p)

----------------------------------------------------------------------------
(* Properties of the payment confirmation *)

SetPaidStep(p) == proc[p].op = "updatePaymentStatus" /\ proc'[p] # proc[p]

OnlyPaidFlagChanged(id) ==
    /\ seatRows' = seatRows
    /\ {b.id : b \in bookings'} = {b.id : b \in bookings}
    /\ \A b \in bookings : \A c \in bookings' :
          c.id = b.id =>
              /\ [c EXCEPT !.isPaid = b.isPaid] = b
              /\ c.id # id => c = b

(* C14: a step of setPaid(bookingId, v) changes nothing but the paid flag   *)
(* of that booking: every row, the seats of every booking and every other   *)
(* booking stay as they are, for v true or false and whatever becomes of    *)
(* the notification.                                                        *)
C14_SetPaidFrame ==
    [][\A p \in SeqProcs : SetPaidStep(p) => OnlyPaidFlagChanged(proc[p].bookingId)]_vars

FlagOf(id) == (CHOOSE b \in bookings : b.id = id).isPaid

C14_PaidWhileMailFailed ==
    \E p \in SeqProcs :
        /\ proc[p].pc = "done"
        /\ proc[p].op = "updatePaymentStatus"
        /\ proc[p].bookingId = 1
        /\ proc[p].result.status = "ok"
        /\ Len(outbox) = 1 /\ outbox[1].channel = "failed"
        /\ FlagOf(1) /\ ~FlagOf(2)

(* setPaid(id, true) has found the booking and written the flag *)
PaidWritten(p) ==
    /\ proc[p].pc = "done"
    /\ proc[p].op = "updatePaymentStatus"
    /\ proc[p].isPaid
    /\ proc[p].cause \notin {"bookingMissing", "persistence"}

(* C15: for an existing booking, setPaid(id, true) returns success and the  *)
(* flag stays true whatever happens to the notification: failed enqueue,    *)
(* failed direct send, or failure while reading the seat details.           *)
C15_NotificationNeverFails ==
    \A p \in SeqProcs :
        PaidWritten(p) =>
            /\ proc[p].result.status = "ok"
            /\ FlagOf(proc[p].bookingId)

(* C16: a notification is triggered only by a call that turned the flag     *)
(* from unpaid to paid: none by setPaid(true) on a paid booking, none by    *)
(* setPaid(false).                                                          *)
C16_NotifiedOnTransitionOnly ==
    /\ \A k \in DOMAIN outbox : ~outbox[k].wasPaid
    /\ \A p \in SeqProcs :
          (proc[p].op = "updatePaymentStatus" /\ ~proc[p].isPaid) =>
              proc[p].pc \notin {"sp_gather", "sp_enqueue", "sp_direct"}

----------------------------------------------------------------------------
(* Properties of the listing *)

(* Position of booking b in the listing order: one more than the number of  *)
(* bookings that come before it                                             *)
Position(b) == 1 + Cardinality({c \in bookings : Before(c, b)})

Listed(p) == proc[p].pc = "done" /\ proc[p].op = "getAllBookings"

FirstPosition(page, limit) == (page - 1) * limit + 1

LastPosition(page, limit) ==
    IF page * limit < Cardinality(bookings) THEN page * limit ELSE Cardinality(bookings)

PageIsWindow(page, limit, listed) ==
    /\ Len(listed) = (IF LastPosition(page, limit) < FirstPosition(page, limit) THEN 0
                      ELSE LastPosition(page, limit) - FirstPosition(page, limit) + 1)
    /\ \A k \in DOMAIN listed :
          \E b \in bookings :
              b.id = listed[k] /\ Position(b) = FirstPosition(page, limit) + k - 1

(* C17: list-bookings(p, L) returns exactly the bookings at positions       *)
(* (p-1)*L+1 .. min(p*L, T) of the order unpaid first, then newest first;   *)
(* two different pages of the same size share no booking, and pages 1 and   *)
(* 2, when they are all the pages, hold every booking.                      *)
C17_PageIsWindow ==
    /\ \A p \in SeqProcs :
          Listed(p) => PageIsWindow(proc[p].page, proc[p].limit, proc[p].listed)
    /\ (/\ Len(prev.log) = 2
        /\ prev.log[1].limit = prev.log[2].limit
        /\ prev.log[1].page # prev.log[2].page) =>
           /\ Range(prev.log[1].listed) \cap Range(prev.log[2].listed) = {}
           /\ (/\ Cardinality(bookings) <= 2 * prev.log[1].limit
               /\ {prev.log[1].page, prev.log[2].page} = {1, 2}) =>
                   Range(prev.log[1].listed) \cup Range(prev.log[2].listed)
                       = {b.id : b \in bookings}

(* Page 2 of size 2 over three bookings, the paid one last although newest  *)
C17_SecondPageOfThree ==
    \E p \in SeqProcs :
        /\ Listed(p)
        /\ proc[p].page = 2 /\ proc[p].limit = 2
        /\ Cardinality(bookings) = 3
        /\ proc[p].listed = <<3>>
        /\ Len(prev.log) = 2 /\ prev.log[2].listed = <<2, 1>>

(* C18: totalPages = ceil(T/L); hasNextPage exactly when p*L < T;           *)
(* hasPreviousPage exactly when p > 1; also for T = 0 and for pages beyond  *)
(* the last.                                                                *)
C18_PaginationFlags ==
    \A p \in SeqProcs :
        Listed(p) =>
            LET T == Cardinality(bookings)
                L == proc[p].limit
                pg == proc[p].pagination
            IN  /\ pg.totalItems = T
                /\ pg.totalPages * L >= T
                /\ pg.totalPages * L < T + L
                /\ pg.hasNextPage <=> (proc[p].page * L < T)
                /\ pg.hasPreviousPage <=> (proc[p].page > 1)

(* The last page of three bookings, and a page beyond the last *)
C18_LastPageAndBeyond ==
    /\ Len(prev.log) = 2
    /\ Cardinality(bookings) = 3
    /\ \E p \in SeqProcs :
        /\ Listed(p)
        /\ proc[p].page = 3 /\ proc[p].limit = 2
        /\ proc[p].listed = <<>>
        /\ ~proc[p].pagination.hasNextPage /\ proc[p].pagination.hasPreviousPage
        /\ proc[p].pagination.totalPages = 2
    /\ prev.log[2].page = 2 /\ prev.log[2].limit = 2 /\ Len(prev.log[2].listed) = 1

----------------------------------------------------------------------------
(* Properties of create-seat-row *)

NameTaken(rows, name) == \E id \in DOMAIN rows : rows[id].name = name

(* C19: createSeatRow with a name that an existing row has fails with the   *)
(* name-exists error, and the rows are afterwards what they were: the same  *)
(* rows with the same seats.                                                *)
C19_DuplicateNameRejected ==
    \A k \in DOMAIN prev.log :
        (prev.log[k].op = "createSeatRow"
            /\ NameTaken(prev.log[k].before, prev.log[k].name)) =>
                /\ prev.log[k].result.status = "error"
                /\ prev.log[k].result.badRequest
                /\ prev.log[k].result.kind = "NameExists"
                /\ prev.log[k].result.row = prev.log[k].name
                /\ prev.log[k].after = prev.log[k].before

(* Row C created with seats [1, 2]; a second create of C with [2] rejected  *)
C19_SecondCreateRejected ==
    /\ Len(prev.log) = 2
    /\ prev.log[2].op = "createSeatRow" /\ prev.log[2].name = "C"
    /\ prev.log[2].result.status = "ok" /\ prev.log[2].rowSeats = <<1, 2>>
    /\ prev.log[1].op = "createSeatRow" /\ prev.log[1].name = "C"
    /\ prev.log[1].rowSeats = <<2>>
    /\ prev.log[1].result.kind = "NameExists"
    /\ seatRows["rC"].seats = <<1, 2>>
    /\ DOMAIN seatRows = RowIds \cup {"rC"}

----------------------------------------------------------------------------
(* Properties of find-or-create of the User *)

(* C20: the email of a request never makes createBooking fail, whether the  *)
(* User exists or is created by a concurrent request with the same email:   *)
(* every booking is linked to the one User of its email, and a request      *)
(* fails only because a seat or a row it names is not available.            *)
C20_EmailNeverFailsBooking ==
    /\ \A b \in bookings : b.userId \in users
    /\ \A p \in Procs :
          FailedCreate(p) => proc[p].cause \in {"unavailable", "rowMissing"}

----------------------------------------------------------------------------
(* Properties of the price and the paid flag *)

Inserted == {c \in bookings' : \A b \in bookings : b.id # c.id}

(* C21: the totalPrice of every booking is 50 times the number of its seat  *)
(* assignments, in every state and whatever is done to the booking later,   *)
(* and a booking is inserted with the paid flag false.                      *)
C21_PriceAndUnpaid ==
    /\ [](\A b \in bookings : b.totalPrice = 50 * Len(b.seats))
    /\ [][\A c \in Inserted : ~c.isPaid]_vars

(* A paid booking of two seats next to an unpaid booking of one seat *)
C21_PaidTwoSeatsUnpaidOne ==
    \E b, c \in bookings :
        /\ Len(b.seats) = 2 /\ b.totalPrice = 100 /\ b.isPaid
        /\ Len(c.seats) = 1 /\ c.totalPrice = 50 /\ ~c.isPaid

----------------------------------------------------------------------------
(* Properties of the rows the administrator maintains *)

(* C22: a seat number is in the available set of at most one row: no two    *)
(* rows offer the same seat number, whatever create-seat-row and add-seat   *)
(* are asked for.                                                           *)
C22_SeatNumberInOneRow ==
    \A id1, id2 \in DOMAIN seatRows :
        id1 # id2 => Available(id1) \cap Available(id2) = {}

(* C23: a seat attached to an existing booking stays out of its row's       *)
(* available set as long as the booking exists: no step of any operation,   *)
(* add-seat included, puts it back.                                         *)
C23_BookedSeatStaysAbsent ==
    [][\A b \in bookings \cap bookings' : \A t \in Range(b.seats) :
          t.seatNumber \notin Range(seatRows[t.seatRowId].seats) =>
              t.seatNumber \notin Range(seatRows'[t.seatRowId].seats)]_vars

----------------------------------------------------------------------------
(* Properties of the transaction of createBooking *)

(* C24: the removals of one createBooking and the insert of its booking are *)
(* one atomic unit: when the request has failed, at a removal or at the     *)
(* insert, every seat it had removed is in its row's available set again    *)
(* and no booking exists for it.                                            *)
C24_RemovalsUndoneOnFailure ==
    \A p \in SeqProcs :
        FailedCreate(p) =>
            /\ proc[p].bookingId = 0
            /\ \A t \in proc[p].removed : t.seatNumber \in Available(t.seatRowId)

(* The request of handler p was refused by the availability loop *)
FailedPreCheck(p) ==
    FailedCreate(p) /\ proc[p].result.kind = "SeatNotAvailable"

(* C25: the availability check is the first step of createBooking: when it  *)
(* refuses the request nothing has been changed, the Users, the Bookings    *)
(* and every row are as before the call and no receipt has been stored.     *)
C25_PreCheckFailsCleanly ==
    \A p \in SeqProcs :
        FailedPreCheck(p) =>
            /\ users = proc[p].tablesBefore.users
            /\ bookings = proc[p].tablesBefore.bookings
            /\ seatRows = prev.before
            /\ proc[p].upload = ""

----------------------------------------------------------------------------
(* Properties of uploadReceipt *)

Uploading(p) == proc[p].op = "uploadReceipt" /\ proc[p].pc # "done"

Uploaded(p) == proc[p].op = "uploadReceipt" /\ proc[p].pc = "done"

NoAttemptAccepted(tried) == \A k \in DOMAIN tried : tried[k].answer # "ok"

UploadOutcomes(p) ==
    /\ Len(proc[p].tried) <= 3
    /\ NoAttemptAccepted(SubSeq(proc[p].tried, 1, Len(proc[p].tried) - 1))
    /\ Uploaded(p) =>
        /\ (~proc[p].file.sizeOk \/ ~proc[p].file.typeOk) =>
              /\ proc[p].tried = <<>>
              /\ proc[p].result.kind \in {"FileTooLarge", "FileTypeNotSupported"}
        /\ proc[p].result.status = "ok" =>
              /\ proc[p].tried # <<>>
              /\ proc[p].tried[Len(proc[p].tried)].answer = "ok"
              /\ proc[p].url # <<>>
        /\ proc[p].result.kind = "UploadFailed" =>
              /\ Len(proc[p].tried) = 3
              /\ NoAttemptAccepted(proc[p].tried)
        /\ (proc[p].file.sizeOk /\ proc[p].file.typeOk
                /\ NoAttemptAccepted(proc[p].tried)) =>
              proc[p].result.kind = "UploadFailed"

(* C26: uploadReceipt ends after at most 3 attempts: it returns the URL     *)
(* after the first accepted attempt and tries no further, tries nothing for *)
(* a file that is too large or of a type not allowed, and ends with the     *)
(* upload error after the third refused or timed-out attempt.               *)
C26_UploadTerminates ==
    /\ [](\A p \in SeqProcs : UploadOutcomes(p))
    /\ \A p \in SeqProcs : Uploading(p) ~> Uploaded(p)

(* A call gave up after an error, an existing name and a timeout *)
C26_GaveUpAfterThird ==
    \E p \in SeqProcs :
        /\ Uploaded(p)
        /\ proc[p].result.kind = "UploadFailed"
        /\ proc[p].tried[1].answer = "error"
        /\ proc[p].tried[2].answer = "exists"
        /\ proc[p].tried[3].answer = "timeout"
        /\ started = 2 /\ Len(proc[p].tried) = 3

(* C27: after an attempt refused because the object name exists, the next   *)
(* attempt uploads under another name, and the URL returned is that of the  *)
(* name under which the upload was accepted.                                *)
C27_RenamedAfterExists ==
    \A p \in SeqProcs :
        /\ \A k \in 1..(Len(proc[p].tried) - 1) :
              proc[p].tried[k].answer = "exists" =>
                  proc[p].tried[k + 1].path # proc[p].tried[k].path
        /\ (Uploaded(p) /\ proc[p].result.status = "ok") =>
              proc[p].url = getPublicUrl(proc[p].tried[Len(proc[p].tried)].path)

----------------------------------------------------------------------------
(* Properties of the notification channel *)

PaidOk(p) ==
    /\ proc[p].pc = "done"
    /\ proc[p].op = "updatePaymentStatus"
    /\ proc[p].isPaid
    /\ proc[p].result.status = "ok"

(* The notifications the finished call of handler p has added *)
NotifiedBy(p) ==
    SubSeq(outbox, Len(proc[p].tablesBefore.outbox) + 1, Len(outbox))

(* C28: a successful setPaid(id, true) leaves exactly one notification: the *)
(* queued job with 3 attempts and exponential backoff from 2 s when the     *)
(* queue has accepted it, one direct send attempt when and only when the    *)
(* queue has refused it; never both and never none.                         *)
C28_QueueOrDirect ==
    \A p \in SeqProcs :
        PaidOk(p) =>
            /\ Len(NotifiedBy(p)) = 1
            /\ ~proc[p].queueError =>
                  /\ NotifiedBy(p)[1].channel = "queue"
                  /\ NotifiedBy(p)[1].options.attempts = 3
                  /\ NotifiedBy(p)[1].options.backoff =
                         [type |-> "exponential", delay |-> 2000]
            /\ proc[p].queueError => NotifiedBy(p)[1].channel \in {"direct", "failed"}

(* One call was queued, the next was refused by the queue and sent directly *)
C28_QueuedThenDirect ==
    /\ Len(outbox) = 2
    /\ outbox[1].channel = "queue"
    /\ outbox[2].channel = "direct"
    /\ \E p \in SeqProcs : PaidOk(p) /\ proc[p].queueError

IsSorted(seats) == \A i, j \in DOMAIN seats : i < j => seats[i] <= seats[j]

(* C29: no row lists a seat number twice, whatever seat list the row was    *)
(* created with, and after a successful addSeat the row it wrote is sorted  *)
(* ascending.                                                               *)
C29_NoDuplicatesSortedAfterAdd ==
    /\ \A id \in DOMAIN seatRows : NoDuplicates(seatRows[id].seats)
    /\ \A k \in DOMAIN prev.log :
          (prev.log[k].op = "addSeatToRow" /\ prev.log[k].result.status = "ok") =>
              IsSorted(prev.log[k].after[prev.log[k].seatRowId].seats)

CreatedRow(p) ==
    /\ proc[p].pc = "done"
    /\ proc[p].op = "createSeatRow"
    /\ proc[p].result.status = "ok"

====
